---- MODULE Spec2Model ----
(***************************************************************************)
(* Model of llm_structured_outputs (src/src/lib.rs).                       *)
(*                                                                         *)
(* SpecSchema : get_schema::<T>() as a pure function of a type descriptor  *)
(*              T: the schemars root schema, the recursive "format"        *)
(*              transform, and the schema name built from type_name.       *)
(* Spec       : concurrent query_openai calls sharing the two LazyLock     *)
(*              statics CONFIG and CLIENT, one HTTP request/response       *)
(*              cycle each, and the expect/unwrap fail-fast paths.         *)
(***************************************************************************)
EXTENDS Naturals, Sequences, FiniteSets, TLC

VARIABLES
    ty,       \* SpecSchema: the target type T handed to get_schema
    out,      \* SpecSchema: the Schema returned by get_schema, or NoSchema
    env,      \* process environment seen by Config::new
    config,   \* the CONFIG LazyLock: state, value, runs of its initializer
    client,   \* the CLIENT LazyLock: state, runs of its initializer
    calls,    \* per query_openai call: its position and locals
    sent      \* per call: requests put on the wire by CLIENT.post(..).send()

vars == <<ty, out, env, config, client, calls, sent>>

(***************************************************************************)
(* Bounds                                                                  *)
(***************************************************************************)
MaxDepth == 2   \* nesting of Vec<_> / &_ around the base types
NumCalls == 2   \* concurrent query_openai calls

(***************************************************************************)
(* Type descriptors: the T of get_schema::<T>()                            *)
(***************************************************************************)
tn_i64 == <<"i","6","4">>
tn_f64 == <<"f","6","4">>
tn_String == <<"a","l","l","o","c",":",":","s","t","r","i","n","g",":",":","S","t","r","i","n","g">>
tn_Vec == <<"a","l","l","o","c",":",":","v","e","c",":",":","V","e","c">>
tn_HashMap == <<"s","t","d",":",":","c","o","l","l","e","c","t","i","o","n","s",":",":","h","a","s","h",":",":","m","a","p",":",":","H","a","s","h","M","a","p">>
tn_tests == <<"l","l","m","_","s","t","r","u","c","t","u","r","e","d","_","o","u","t","p","u","t","s",":",":","t","e","s","t","s",":",":">>
tn_SimpleResponseSchema == <<"S","i","m","p","l","e","R","e","s","p","o","n","s","e","S","c","h","e","m","a">>
tn_EnumResponseSchema == <<"E","n","u","m","R","e","s","p","o","n","s","e","S","c","h","e","m","a">>
tn_NestedResponseSchema == <<"N","e","s","t","e","d","R","e","s","p","o","n","s","e","S","c","h","e","m","a">>
tn_ComplexResponseSchema == <<"C","o","m","p","l","e","x","R","e","s","p","o","n","s","e","S","c","h","e","m","a">>
tn_Sentiment == <<"S","e","n","t","i","m","e","n","t">>
tn_ApiReply == <<"a","p","p",":",":","a","p","i",":",":","R","e","p","l","y">>
tn_WebReply == <<"a","p","p",":",":","w","e","b",":",":","R","e","p","l","y">>
tn_CrateReply == <<"a","p","p","_","a","p","i",":",":","R","e","p","l","y">>

I64 == [kind |-> "i64"]
F64 == [kind |-> "f64"]
StringT == [kind |-> "String"]
VecOf(t) == [kind |-> "Vec", elem |-> t]
RefOf(t) == [kind |-> "ref", elem |-> t]
TupleOf(a, b) == [kind |-> "tuple", a |-> a, b |-> b]
HashMapOf(v) == [kind |-> "HashMap", value |-> v]
Field(n, t, d) == [name |-> n, ty |-> t, desc |-> d]

\* The types the repository's tests derive schemas for.
Sentiment ==
    [kind |-> "enum", path |-> tn_tests \o tn_Sentiment, ident |-> "Sentiment",
     variants |-> <<"Positive", "Neutral", "Negative">>]

SimpleResponseSchema ==
    [kind |-> "struct", path |-> tn_tests \o tn_SimpleResponseSchema,
     ident |-> "SimpleResponseSchema", deny |-> TRUE,
     fields |-> << Field("summary", VecOf(StringT), TRUE),
                   Field("tone", StringT, TRUE),
                   Field("word_count", I64, TRUE),
                   Field("flair", F64, TRUE) >>]

EnumResponseSchema ==
    [kind |-> "struct", path |-> tn_tests \o tn_EnumResponseSchema,
     ident |-> "EnumResponseSchema", deny |-> TRUE,
     fields |-> << Field("summary", StringT, TRUE),
                   Field("sentiment", Sentiment, TRUE),
                   Field("word_count", I64, TRUE) >>]

NestedResponseSchema ==
    [kind |-> "struct", path |-> tn_tests \o tn_NestedResponseSchema,
     ident |-> "NestedResponseSchema", deny |-> TRUE,
     fields |-> << Field("responses", VecOf(SimpleResponseSchema), TRUE) >>]

ComplexResponseSchema ==
    [kind |-> "struct", path |-> tn_tests \o tn_ComplexResponseSchema,
     ident |-> "ComplexResponseSchema", deny |-> TRUE,
     fields |-> << Field("summary", StringT, TRUE),
                   Field("word_count", I64, TRUE),
                   Field("flair", F64, TRUE),
                   Field("responses", VecOf(SimpleResponseSchema), TRUE),
                   Field("sentiments", VecOf(Sentiment), TRUE),
                   Field("object_in_object", SimpleResponseSchema, FALSE) >>]

\* Further caller types: a field that is itself called "format", and
\* same-named types in different modules and crates.
ApiReply ==
    [kind |-> "struct", path |-> tn_ApiReply, ident |-> "Reply", deny |-> FALSE,
     fields |-> << Field("format", StringT, FALSE), Field("size", I64, FALSE) >>]

WebReply ==
    [kind |-> "struct", path |-> tn_WebReply, ident |-> "Reply", deny |-> FALSE,
     fields |-> << Field("text", StringT, FALSE) >>]

CrateReply ==
    [kind |-> "struct", path |-> tn_CrateReply, ident |-> "Reply", deny |-> FALSE,
     fields |-> << Field("text", StringT, FALSE) >>]

Prims == {I64, F64, StringT}
Declared == {Sentiment, SimpleResponseSchema, EnumResponseSchema, NestedResponseSchema,
             ComplexResponseSchema, ApiReply, WebReply, CrateReply}
BaseTypes == Prims \cup Declared
               \cup {TupleOf(a, b) : a \in Prims, b \in Prims}
               \cup {HashMapOf(v) : v \in Prims}

RECURSIVE TypesUpTo(_)
TypesUpTo(d) ==
    IF d = 0 THEN BaseTypes
    ELSE LET S == TypesUpTo(d - 1)
         IN  S \cup {VecOf(t) : t \in S} \cup {RefOf(t) : t \in S}

AllTypes == TypesUpTo(MaxDepth)

IsNamed(t) == t.kind \in {"struct", "enum"}
(***************************************************************************)
(* std::any::type_name::<T>() as a sequence of characters                  *)
(***************************************************************************)
RECURSIVE type_name(_)
type_name(t) ==
    CASE t.kind = "i64"     -> tn_i64
      [] t.kind = "f64"     -> tn_f64
      [] t.kind = "String"  -> tn_String
      [] t.kind = "Vec"     -> tn_Vec \o <<"<">> \o type_name(t.elem) \o <<">">>
      [] t.kind = "ref"     -> <<"&">> \o type_name(t.elem)
      [] t.kind = "tuple"   -> <<"(">> \o type_name(t.a) \o <<",", " ">>
                                 \o type_name(t.b) \o <<")">>
      [] t.kind = "HashMap" -> tn_HashMap \o <<"<">> \o tn_String \o <<",", " ">>
                                 \o type_name(t.value) \o <<">">>
      [] OTHER              -> t.path

\* str::replace: every non-overlapping match of from, left to right
\* (from is never empty here).
RECURSIVE Replace(_, _, _)
Replace(s, from, to) ==
    LET n == Len(from)
        M == { i \in 1..(Len(s) + 1 - n) : SubSeq(s, i, i + n - 1) = from }
    IN  IF Len(s) < n \/ M = {} THEN s
        ELSE LET i == CHOOSE i \in M : \A j \in M : i <= j
             IN  SubSeq(s, 1, i - 1) \o to \o Replace(SubSeq(s, i + n, Len(s)), from, to)

\* Faulty variant of SanitizeName: only the last path segment is kept.
LastSegment(s) ==
    LET M == { i \in 1..(Len(s) - 1) : s[i] = ":" /\ s[i + 1] = ":" }
    IN  IF M = {} THEN s
        ELSE SubSeq(s, (CHOOSE i \in M : \A j \in M : j <= i) + 2, Len(s))

ShortName(s) == LastSegment(s)

\* lib.rs 23-27: .replace("::", "_").replace("<", "_").replace(">", "_")
SanitizeName(s) ==
    Replace(Replace(Replace(s, <<":", ":">>, <<"_">>), <<"<">>, <<"_">>), <<">">>, <<"_">>)

NameRegexChars == {"a","b","c","d","e","f","g","h","i","j","k","l","m","n","o","p","q","r","s","t","u","v","w","x","y","z","A","B","C","D","E","F","G","H","I","J","K","L","M","N","O","P","Q","R","S","T","U","V","W","X","Y","Z","0","1","2","3","4","5","6","7","8","9","_","-"}

\* ^[a-zA-Z0-9_-]+$
MatchesNameRegex(s) == Len(s) > 0 /\ \A i \in 1..Len(s) : s[i] \in NameRegexChars
(***************************************************************************)
(* JSON documents: a set of <<path, value>> entries, one per node.  A path *)
(* is the sequence of object keys / array indices from the root; the value *)
(* is the container mark OBJ or ARR, or the scalar.                        *)
(***************************************************************************)
OBJ == "{}"
ARR == "[]"
JsonTrue == "<true>"
JsonFalse == "<false>"
Scalar(v) == { << <<>>, v >> }
Graft(p, doc) == { << p \o e[1], e[2] >> : e \in doc }
Object(members) ==
    { << <<>>, OBJ >> } \cup UNION { Graft(<<k>>, members[k]) : k \in DOMAIN members }
Array(elems) ==
    { << <<>>, ARR >> }
        \cup UNION { Graft(<<ToString(i - 1)>>, elems[i]) : i \in DOMAIN elems }

Paths(doc) == { e[1] : e \in doc }
ValueAt(doc, p) == (CHOOSE e \in doc : e[1] = p)[2]
Keys(doc, p) == { q[Len(p) + 1] : q \in { r \in Paths(doc) :
                      Len(r) = Len(p) + 1 /\ SubSeq(r, 1, Len(p)) = p } }
HasPrefix(q, p) == Len(q) >= Len(p) /\ SubSeq(q, 1, Len(p)) = p
\* serde_json Map::remove(key) on the object at p: the key and its subtree go.
RemoveKey(doc, p, k) == { e \in doc : ~HasPrefix(e[1], p \o <<k>>) }

(***************************************************************************)
(* schemars: JsonSchema::schema_name / json_schema and the root schema     *)
(***************************************************************************)
RECURSIVE schema_name(_)
schema_name(t) ==
    CASE t.kind = "i64"     -> "int64"
      [] t.kind = "f64"     -> "double"
      [] t.kind = "String"  -> "string"
      [] t.kind = "Vec"     -> "Array_of_" \o schema_name(t.elem)
      [] t.kind = "ref"     -> schema_name(t.elem)
      [] t.kind = "tuple"   -> "Tuple_of_" \o schema_name(t.a) \o "_and_" \o schema_name(t.b)
      [] t.kind = "HashMap" -> "Map_of_" \o schema_name(t.value)
      [] OTHER              -> t.ident

\* The schema of t where it is used: a $ref for derived types, inline else.
RECURSIVE subschema(_)
subschema(t) ==
    CASE t.kind = "i64"     -> Object(("type" :> Scalar("integer")) @@ ("format" :> Scalar("int64")))
      [] t.kind = "f64"     -> Object(("type" :> Scalar("number")) @@ ("format" :> Scalar("double")))
      [] t.kind = "String"  -> Object("type" :> Scalar("string"))
      [] t.kind = "Vec"     -> Object(("type" :> Scalar("array")) @@ ("items" :> subschema(t.elem)))
      [] t.kind = "ref"     -> subschema(t.elem)
      [] t.kind = "tuple"   -> Object(("type" :> Scalar("array"))
                                   @@ ("prefixItems" :> Array(<<subschema(t.a), subschema(t.b)>>))
                                   @@ ("minItems" :> Scalar("2")) @@ ("maxItems" :> Scalar("2")))
      [] t.kind = "HashMap" -> Object(("type" :> Scalar("object"))
                                   @@ ("additionalProperties" :> subschema(t.value)))
      [] OTHER              -> Object("$ref" :> Scalar("#/$defs/" \o t.ident))

\* One property of a derived struct: the field's schema plus its description.
property(f) ==
    IF f.desc THEN subschema(f.ty) \cup Graft(<<"description">>, Scalar("text"))
    ELSE subschema(f.ty)

\* The schema a #[derive(JsonSchema)] type describes itself with.
derived_schema(t) ==
    IF t.kind = "enum"
    THEN Object(("type" :> Scalar("string"))
             @@ ("enum" :> Array([i \in DOMAIN t.variants |-> Scalar(t.variants[i])])))
    ELSE LET names == { t.fields[i].name : i \in DOMAIN t.fields }
             byName(n) == CHOOSE f \in { t.fields[i] : i \in DOMAIN t.fields } : f.name = n
             base == ("type" :> Scalar("object"))
                  @@ ("properties" :> Object([n \in names |-> property(byName(n))]))
                  @@ ("required" :> Array([i \in DOMAIN t.fields |-> Scalar(t.fields[i].name)]))
         IN  IF t.deny THEN Object(base @@ ("additionalProperties" :> Scalar(JsonFalse)))
             ELSE Object(base)

\* T::json_schema: a reference forwards to its referent.
RECURSIVE json_schema(_)
json_schema(t) ==
    IF t.kind = "ref" THEN json_schema(t.elem)
    ELSE IF IsNamed(t) THEN derived_schema(t) ELSE subschema(t)

\* The derived types the schema of t refers to by $ref: used(t) where t is a
\* part of another schema, definitions(t) for t's own schema.
RECURSIVE used(_)
RECURSIVE definitions(_)
used(t) ==
    IF t.kind = "ref" THEN used(t.elem)
    ELSE IF IsNamed(t) THEN {t} \cup definitions(t) ELSE definitions(t)
definitions(t) ==
    CASE t.kind \in {"Vec", "ref"} -> IF t.kind = "ref" THEN definitions(t.elem)
                                      ELSE used(t.elem)
      [] t.kind = "tuple" -> used(t.a) \cup used(t.b)
      [] t.kind = "HashMap" -> used(t.value)
      [] t.kind = "struct" -> UNION { used(t.fields[i].ty) : i \in DOMAIN t.fields }
      [] OTHER -> {}

\* SchemaGenerator::into_root_schema_for::<T>, before the transforms run.
root_schema(t) ==
    LET defs == definitions(t)
        body == json_schema(t)
                  \cup Graft(<<"title">>, Scalar(schema_name(t)))
                  \cup Graft(<<"$schema">>, Scalar("https://json-schema.org/draft/2020-12/schema"))
    IN  IF defs = {} THEN body
        ELSE body \cup Graft(<<"$defs">>,
                 Object([n \in { d.ident : d \in defs } |->
                           derived_schema(CHOOSE d \in defs : d.ident = n)]))
(***************************************************************************)
(* schemars::transform: the walk over subschemas and the closure applied   *)
(***************************************************************************)
\* Schema::try_from(&mut Value) succeeds on objects and booleans.
IsSchemaValue(doc, q) == ValueAt(doc, q) \in {OBJ, JsonTrue, JsonFalse}
Members(doc, q) == { q \o <<k>> : k \in Keys(doc, q) }

\* transform_subschemas: the subschemas found directly under the schema at p.
subschemas(doc, p) ==
    LET under(k) ==
            LET m == p \o <<k>> IN
            CASE k \in {"not", "if", "then", "else", "contains", "additionalProperties",
                        "propertyNames", "additionalItems"} -> {m}
              [] k \in {"allOf", "anyOf", "oneOf", "prefixItems"} ->
                     IF ValueAt(doc, m) = ARR THEN Members(doc, m) ELSE {}
              [] k = "items" ->
                     IF ValueAt(doc, m) = ARR THEN Members(doc, m) ELSE {m}
              [] k \in {"properties", "patternProperties", "$defs", "definitions"} ->
                     IF ValueAt(doc, m) = OBJ THEN Members(doc, m) ELSE {}
              [] OTHER -> {}
    IN  { q \in UNION { under(k) : k \in Keys(doc, p) } : IsSchemaValue(doc, q) }

\* Faulty variant of closure: "title" is removed as well.
FormatAndTitleClosure(doc, p) ==
    IF ValueAt(doc, p) = OBJ
    THEN RemoveKey(RemoveKey(doc, p, "format"), p, "title") ELSE doc

\* lib.rs 13-15: |schema| { schema.remove("format"); }
closure(doc, p) ==
    IF ValueAt(doc, p) = OBJ THEN RemoveKey(doc, p, "format") ELSE doc

\* RecursiveTransform::transform: the closure on the schema, then on every
\* subschema in turn.
RECURSIVE RecursiveTransform(_, _)
RECURSIVE transform_each(_, _)
RecursiveTransform(doc, p) ==
    LET d == closure(doc, p) IN transform_each(d, subschemas(d, p))
transform_each(doc, S) ==
    IF S = {} THEN doc
    ELSE LET q == CHOOSE q \in S : TRUE
         IN  transform_each(RecursiveTransform(doc, q), S \ {q})

\* Faulty variant of apply_transforms: the closure without RecursiveTransform,
\* applied to the root schema only.
RootOnlyTransform(doc) == closure(doc, <<>>)

\* lib.rs 12-18: with_transform(RecursiveTransform(..)) run by the generator.
apply_transforms(doc) == RecursiveTransform(doc, <<>>)

(***************************************************************************)
(* lib.rs 7-34: get_schema::<T>()                                          *)
(***************************************************************************)
NoSchema == [name |-> <<>>, schema |-> {}, strict |-> FALSE]

get_schema(t) ==
    [name   |-> SanitizeName(type_name(t)),
     schema |-> apply_transforms(root_schema(t)),
     strict |-> TRUE]
(***************************************************************************)
(* The process-wide statics and the environment                            *)
(***************************************************************************)
Calls == 1..NumCalls

Absent == "absent"
Envs == [dotenv : BOOLEAN, OPENAI_API_KEY : {Absent, "sk-test"},
         OPENAI_MODEL : {Absent, "o3-mini-2025-01-31"}]

NoConfig == [api_key |-> "uninitialized", model |-> "uninitialized"]

\* Faulty variant of Config_new: a default in place of the last expect.
ConfigNewDefaultModel(e) ==
    IF e.dotenv /\ e.OPENAI_API_KEY # Absent
    THEN [panic |-> FALSE,
          value |-> [api_key |-> e.OPENAI_API_KEY,
                     model |-> IF e.OPENAI_MODEL = Absent THEN "" ELSE e.OPENAI_MODEL]]
    ELSE [panic |-> TRUE, value |-> NoConfig]

\* lib.rs 152-158: Config::new: three expects, then the value.
Config_new(e) ==
    IF e.dotenv /\ e.OPENAI_API_KEY # Absent /\ e.OPENAI_MODEL # Absent
    THEN [panic |-> FALSE,
          value |-> [api_key |-> e.OPENAI_API_KEY, model |-> e.OPENAI_MODEL]]
    ELSE [panic |-> TRUE, value |-> NoConfig]

\* Faulty variant of LazyForce: a second caller is let through while the
\* first still runs the initializer.
ForceWithoutWaiting(state) ==
    CASE state = "uninit"   -> "init"
      [] state = "running"  -> "ready"
      [] state = "complete" -> "ready"
      [] OTHER              -> "poisoned"

\* lib.rs 1-3: std::sync::LazyLock::force on a cell in the given state.
LazyForce(state) ==
    CASE state = "uninit"   -> "init"
      [] state = "running"  -> "wait"
      [] state = "complete" -> "ready"
      [] OTHER              -> "poisoned"

(***************************************************************************)
(* Responses of the provider                                               *)
(***************************************************************************)
Statuses == {200, 304, 400, 500}

\* A response body: its bytes, and what serde_json makes of them as an
\* OpenAIChatCompletionResponse (whether they parse, and the contents of the
\* choices if they do).
ErrorBody    == [bytes |-> <<123, 34, 101, 34, 125>>, parses |-> FALSE, choices |-> <<>>]
BinaryBody   == [bytes |-> <<123, 255, 125>>, parses |-> FALSE, choices |-> <<>>]
EmptyChoices == [bytes |-> <<123, 91, 93, 125>>, parses |-> TRUE, choices |-> <<>>]
OneValid     == [bytes |-> <<123, 91, 49, 93, 125>>, parses |-> TRUE, choices |-> <<"valid">>]
OneNotJson   == [bytes |-> <<123, 91, 50, 93, 125>>, parses |-> TRUE, choices |-> <<"not_json">>]
OneUnknown   == [bytes |-> <<123, 91, 51, 93, 125>>, parses |-> TRUE, choices |-> <<"unknown_field">>]
TwoChoices   == [bytes |-> <<123, 91, 49, 50, 93, 125>>, parses |-> TRUE, choices |-> <<"valid", "not_json">>]
Bodies == {ErrorBody, BinaryBody, EmptyChoices, OneValid, OneNotJson, OneUnknown, TwoChoices}
NoBody == [bytes |-> <<>>, parses |-> FALSE, choices |-> <<>>]

\* Response::text: the bytes decoded as UTF-8, U+FFFD for what is not.
text(bytes) == [i \in DOMAIN bytes |-> IF bytes[i] < 128 THEN bytes[i] ELSE 65533]

\* StatusCode::is_client_error() || is_server_error()
error_for_status(status) == status \in 400..599

\* lib.rs 84-91: what query_openai_inner returns once send() gave a response.
inner_result(status, body, bodyOk) ==
    IF error_for_status(status)
    THEN IF bodyOk
         THEN [kind |-> "err", what |-> "upstream", status |-> status,
               raw |-> text(body.bytes)]
         ELSE [kind |-> "panic", line |-> 87]
    ELSE IF bodyOk /\ body.parses
         THEN [kind |-> "ok", choices |-> body.choices]
         ELSE [kind |-> "err", what |-> "body"]

\* Faulty variant of from_str: unknown fields pass.
LenientFromStr(content) == content \in {"valid", "unknown_field"}

\* lib.rs 51-59: serde_json::from_str::<T> for a deny_unknown_fields T.
from_str(content) == content = "valid"

\* Faulty variant of first_choice: a default element stands in for a
\* missing first one.
FirstOrDefault(choices) ==
    IF Len(choices) = 0 THEN [some |-> TRUE, content |-> ""]
    ELSE [some |-> TRUE, content |-> choices[1]]

\* lib.rs 53-54: response.choices.get(0)
first_choice(choices) ==
    IF Len(choices) = 0 THEN [some |-> FALSE, content |-> ""]
    ELSE [some |-> TRUE, content |-> choices[1]]

\* lib.rs 44-59: what query_openai makes of the inner result.
outer_result(inner) ==
    CASE inner.kind = "panic" -> inner
      [] inner.kind = "err"   -> [kind |-> "panic", line |-> 46]
      [] OTHER ->
           LET first == first_choice(inner.choices) IN
           IF ~first.some THEN [kind |-> "panic", line |-> 55]
           ELSE IF from_str(first.content) THEN [kind |-> "value", line |-> 59]
           ELSE [kind |-> "panic", line |-> 59]

\* Faulty variant of after_send_error: the request is sent again.
RetryAfterSendError(call) == [call EXCEPT !.pc = "send"]

\* lib.rs 82 and 46: send().await? returns the error, expect panics on it.
after_send_error(call) ==
    [call EXCEPT !.pc = "done",
                 !.inner = [kind |-> "err", what |-> "transport"],
                 !.result = [kind |-> "panic", line |-> 46]]

NoInner == [kind |-> "none"]
IdleCall == [pc |-> "idle", name |-> <<>>, model |-> "unread", api_key |-> "unread",
             status |-> 0, body |-> NoBody, bodyOk |-> FALSE,
             inner |-> NoInner, result |-> NoInner]
(***************************************************************************)
(* SpecSchema: get_schema applied to one target type                       *)
(***************************************************************************)
ClientIdle ==
    /\ env = [dotenv |-> TRUE, OPENAI_API_KEY |-> "sk-test",
              OPENAI_MODEL |-> "o3-mini-2025-01-31"]
    /\ config = [state |-> "uninit", value |-> NoConfig, inits |-> 0]
    /\ client = [state |-> "uninit", inits |-> 0]
    /\ calls = [c \in Calls |-> IdleCall]
    /\ sent = [c \in Calls |-> 0]

InitSchema ==
    /\ ty \in AllTypes
    /\ out = NoSchema
    /\ ClientIdle

GetSchema ==
    /\ out = NoSchema
    /\ out' = get_schema(ty)
    /\ UNCHANGED <<ty, env, config, client, calls, sent>>

NextSchema == GetSchema

SpecSchema == InitSchema /\ [][NextSchema]_vars
(***************************************************************************)
(* Spec: concurrent query_openai::<SimpleResponseSchema> calls             *)
(***************************************************************************)
Init ==
    /\ ty = SimpleResponseSchema
    /\ out = NoSchema
    /\ env \in Envs
    /\ config = [state |-> "uninit", value |-> NoConfig, inits |-> 0]
    /\ client = [state |-> "uninit", inits |-> 0]
    /\ calls = [c \in Calls |-> IdleCall]
    /\ sent = [c \in Calls |-> 0]

PoisonPanic == [kind |-> "panic", line |-> 3]

\* lib.rs 43: the call starts by deriving the schema for T.
Invoke(c) ==
    /\ calls[c].pc = "idle"
    /\ calls' = [calls EXCEPT ![c].pc = "build", ![c].name = get_schema(ty).name]
    /\ UNCHANGED <<ty, out, env, config, client, sent>>

\* lib.rs 68: CONFIG.model.clone() forces the CONFIG cell.
ForceConfig(c) ==
    /\ calls[c].pc = "build"
    /\ LET how == LazyForce(config.state) IN
       \/ /\ how = "init"
          /\ config' = [config EXCEPT !.state = "running", !.inits = @ + 1]
          /\ calls' = [calls EXCEPT ![c].pc = "config_new"]
       \/ /\ how = "ready"
          /\ calls' = [calls EXCEPT ![c].pc = "post", ![c].model = config.value.model]
          /\ UNCHANGED config
       \/ /\ how = "poisoned"
          /\ calls' = [calls EXCEPT ![c].pc = "done", ![c].result = PoisonPanic]
          /\ UNCHANGED config
    /\ UNCHANGED <<ty, out, env, client, sent>>

\* lib.rs 3, 152-158: the forcing call runs Config::new inside the cell.
ConfigNew(c) ==
    /\ calls[c].pc = "config_new"
    /\ LET made == Config_new(env) IN
       \/ /\ ~made.panic
          /\ config' = [config EXCEPT !.state = "complete", !.value = made.value]
          /\ calls' = [calls EXCEPT ![c].pc = "post", ![c].model = made.value.model]
       \/ /\ made.panic
          /\ config' = [config EXCEPT !.state = "poisoned"]
          /\ calls' = [calls EXCEPT ![c].pc = "done",
                                    ![c].result = [kind |-> "panic", line |-> 153]]
    /\ UNCHANGED <<ty, out, env, client, sent>>

\* lib.rs 77: CLIENT.post(..) forces the CLIENT cell.
ForceClient(c) ==
    /\ calls[c].pc = "post"
    /\ LET how == LazyForce(client.state) IN
       \/ /\ how = "init"
          /\ client' = [client EXCEPT !.state = "running", !.inits = @ + 1]
          /\ calls' = [calls EXCEPT ![c].pc = "client_new"]
       \/ /\ how = "ready"
          /\ calls' = [calls EXCEPT ![c].pc = "send"]
          /\ UNCHANGED client
    /\ UNCHANGED <<ty, out, env, config, sent>>

\* lib.rs 2: the forcing call runs reqwest::Client::new inside the cell.
ClientNew(c) ==
    /\ calls[c].pc = "client_new"
    /\ client' = [client EXCEPT !.state = "complete"]
    /\ calls' = [calls EXCEPT ![c].pc = "send"]
    /\ UNCHANGED <<ty, out, env, config, sent>>

\* lib.rs 79-81: bearer_auth(CONFIG.api_key.clone()) .json(&query) .send()
Send(c) ==
    /\ calls[c].pc = "send"
    /\ calls' = [calls EXCEPT ![c].pc = "await", ![c].api_key = config.value.api_key]
    /\ sent' = [sent EXCEPT ![c] = @ + 1]
    /\ UNCHANGED <<ty, out, env, config, client>>

\* lib.rs 82: send().await fails (network / connection failure).
SendFails(c) ==
    /\ calls[c].pc = "await"
    /\ calls' = [calls EXCEPT ![c] = after_send_error(@)]
    /\ UNCHANGED <<ty, out, env, config, client, sent>>

\* lib.rs 82-91 and 44-59: the provider answers; the rest of the call is
\* local to it.
Respond(c) ==
    /\ calls[c].pc = "await"
    /\ \E status \in Statuses, body \in Bodies, bodyOk \in BOOLEAN :
         LET inner == inner_result(status, body, bodyOk) IN
         calls' = [calls EXCEPT ![c].pc = "done", ![c].status = status,
                                ![c].body = body, ![c].bodyOk = bodyOk,
                                ![c].inner = inner, ![c].result = outer_result(inner)]
    /\ UNCHANGED <<ty, out, env, config, client, sent>>

Next ==
    \E c \in Calls :
        \/ Invoke(c)
        \/ ForceConfig(c)
        \/ ConfigNew(c)
        \/ ForceClient(c)
        \/ ClientNew(c)
        \/ Send(c)
        \/ SendFails(c)
        \/ Respond(c)

Spec == Init /\ [][Next]_vars
(***************************************************************************)
(* Properties of get_schema (checked under SpecSchema)                     *)
(***************************************************************************)
Derived == out # NoSchema

\* Whether the node at path p of doc stands where JSON Schema puts a schema:
\* the root, the value of a schema-valued keyword, or a member of a
\* keyword that holds a map or a list of schemas.
RECURSIVE IsSchemaPosition(_, _, _)
IsSchemaPosition(doc, at, rest) ==
    IF rest = <<>> THEN TRUE
    ELSE LET k == rest[1]
             m == at \o <<k>>
             listed == /\ Len(rest) >= 2
                       /\ IsSchemaPosition(doc, m \o <<rest[2]>>, SubSeq(rest, 3, Len(rest)))
         IN  CASE k \in {"not", "if", "then", "else", "contains", "additionalProperties",
                         "propertyNames", "additionalItems"} ->
                      IsSchemaPosition(doc, m, Tail(rest))
               [] k \in {"allOf", "anyOf", "oneOf", "prefixItems"} -> listed
               [] k = "items" ->
                      IF ValueAt(doc, m) = ARR THEN listed
                      ELSE IsSchemaPosition(doc, m, Tail(rest))
               [] k \in {"properties", "patternProperties", "$defs", "definitions"} -> listed
               [] OTHER -> FALSE

SchemaPositions(doc) == { p \in Paths(doc) : IsSchemaPosition(doc, <<>>, p) }

\* C1 as stated: no node of the returned schema, at any depth, has a key
\* "format".
C1_NoFormatKeyAnywhere ==
    Derived => \A p \in Paths(out.schema) : \A i \in 1..Len(p) : p[i] # "format"

\* C1 as amended: no schema of the returned tree (the root and every
\* subschema under properties, items, prefixItems, additionalProperties,
\* $defs, ...) keeps a "format" keyword, and nothing but "format" keywords
\* of schemas is taken out of the generated tree; "format" may remain as a
\* property name.
C1_NoFormatKeyword ==
    Derived =>
        /\ \A p \in SchemaPositions(out.schema) : (p \o <<"format">>) \notin Paths(out.schema)
        /\ out.schema \subseteq root_schema(ty)
        /\ \A p \in Paths(root_schema(ty)) \ Paths(out.schema) :
               \E i \in 1..Len(p) :
                   /\ p[i] = "format"
                   /\ SubSeq(p, 1, i - 1) \in SchemaPositions(root_schema(ty))

\* C1 witness: a schema came back whose generated tree had "format" on a
\* definition under $defs, now gone, and which keeps a property that is
\* itself named "format".
C1_Witness ==
    /\ Derived
    /\ <<"$defs", "Reply", "properties", "size", "format">> \in Paths(root_schema(ty))
    /\ <<"$defs", "Reply", "properties", "size", "format">> \notin Paths(out.schema)
    /\ <<"$defs", "Reply", "properties", "format">> \in Paths(out.schema)

\* C2: the name of the returned Schema is non-empty and all its characters
\* are in [A-Za-z0-9_-].
C2_NameMatchesRegex == Derived => MatchesNameRegex(out.name)

\* The schema name of every type of the universe.
NameOf == [t \in AllTypes |-> get_schema(t).name]
TypeNameOf == [t \in AllTypes |-> type_name(t)]

\* C3 as stated: two types whose type names differ never get the same
\* schema name.
C3_NoCollision ==
    Derived => \A t \in AllTypes : TypeNameOf[t] # TypeNameOf[ty] => NameOf[t] # out.name

\* A type name without "_", "<" and ">".
Plain(s) == \A i \in 1..Len(s) : s[i] \notin {"_", "<", ">"}

\* C3 as amended: two types whose type names differ and contain none of
\* "_", "<", ">" never get the same schema name.
C3_NoCollisionAmongPlainNames ==
    Derived /\ Plain(TypeNameOf[ty]) =>
        \A t \in AllTypes :
            Plain(TypeNameOf[t]) /\ TypeNameOf[t] # TypeNameOf[ty] => NameOf[t] # out.name

\* C3 witness: a name was derived for a plain, module-qualified type, and
\* the replacement changed it.
C3_Witness ==
    /\ Derived
    /\ ty = ApiReply
    /\ Plain(TypeNameOf[ty])
    /\ out.name # TypeNameOf[ty]

\* C9 as stated: the returned schema has no "title" key at its root.
C9_NoRootTitle == Derived => <<"title">> \notin Paths(out.schema)

\* C9 as amended: the returned schema always has a "title" key at its root,
\* the schema name schemars gives the type; get_schema does not strip it.
C9_RootTitleKept ==
    Derived =>
        /\ <<"title">> \in Paths(out.schema)
        /\ ValueAt(out.schema, <<"title">>) = schema_name(ty)

\* C9 witness: the schema of the tests' ComplexResponseSchema came back.
C9_Witness == Derived /\ ty = ComplexResponseSchema /\ out.strict
(***************************************************************************)
(* Properties of the calls (checked under Spec)                            *)
(***************************************************************************)
Done(c) == calls[c].pc = "done"
\* The provider answered call c (status, body) and the call has finished.
Answered(c) == Done(c) /\ calls[c].status # 0
SuccessStatus(c) == calls[c].status \in 200..299
\* A success status with a readable, well-formed envelope.
GoodEnvelope(c) ==
    Answered(c) /\ SuccessStatus(c) /\ calls[c].bodyOk /\ calls[c].body.parses
EmptyEnvelope(c) == GoodEnvelope(c) /\ calls[c].body.choices = <<>>
BadContent(c) ==
    /\ GoodEnvelope(c)
    /\ calls[c].body.choices # <<>>
    /\ calls[c].body.choices[1] # "valid"
EnvComplete ==
    env.dotenv /\ env.OPENAI_API_KEY # Absent /\ env.OPENAI_MODEL # Absent

\* C4: a non-success status makes query_openai_inner return an error value
\* that carries the status and the raw body byte for byte; the response is
\* not parsed as an envelope.
C4_UpstreamErrorVerbatim ==
    \A c \in Calls :
        Answered(c) /\ ~SuccessStatus(c) =>
            calls[c].inner = [kind |-> "err", what |-> "upstream",
                              status |-> calls[c].status, raw |-> calls[c].body.bytes]

\* C5 as stated: an envelope with no choices ends the call with an error
\* value (a ProtocolError), not a panic.
C5_EmptyChoicesIsError ==
    \A c \in Calls : EmptyEnvelope(c) => calls[c].result.kind = "err"

\* C5 as amended: an envelope with no choices ends the call in the panic of
\* the expect on choices.get(0) (lib.rs 55); no value, default or otherwise,
\* is returned and no absent element is read.
C5_EmptyChoicesPanics ==
    \A c \in Calls :
        EmptyEnvelope(c) => calls[c].result = [kind |-> "panic", line |-> 55]

\* C5 witness: a call was answered 200 with an empty choices list.
C5_Witness == \E c \in Calls : EmptyEnvelope(c) /\ calls[c].status = 200

\* C6 as stated: a first choice whose content does not decode into T ends
\* the call with an error value (a DecodeError).
C6_DecodeErrorSurfaced ==
    \A c \in Calls : BadContent(c) => calls[c].result.kind = "err"

\* C6 as amended: a first choice whose content does not decode into T ends
\* the call in the panic of the last expect (lib.rs 59); every failure of a
\* call is a panic, none an error value, and a value comes back only from a
\* well-formed envelope whose first choice decodes.
C6_FailuresPanic ==
    \A c \in Calls :
        Done(c) =>
            /\ BadContent(c) => calls[c].result = [kind |-> "panic", line |-> 59]
            /\ calls[c].result.kind \in {"value", "panic"}
            /\ calls[c].result.kind = "value" =>
                   /\ Answered(c) /\ calls[c].bodyOk /\ calls[c].body.parses
                   /\ ~error_for_status(calls[c].status)
                   /\ calls[c].body.choices # <<>>
                   /\ calls[c].body.choices[1] = "valid"

\* C6 witness: a call got JSON content with a field T does not know, and
\* another content that is not JSON.
C6_Witness ==
    /\ \E c \in Calls : BadContent(c) /\ calls[c].body.choices[1] = "unknown_field"
    /\ \E c \in Calls : BadContent(c) /\ calls[c].body.choices[1] = "not_json"

\* Call c got as far as send(): it waits for the answer, or query_openai_inner
\* has ended (transport failure, non-success status, envelope, decode, value).
ReachedSend(c) == calls[c].pc = "await" \/ (Done(c) /\ calls[c].inner # NoInner)

\* C7 as stated: every call that has ended has sent exactly one request,
\* whatever its outcome.
C7_ExactlyOnePerInvocation == \A c \in Calls : Done(c) => sent[c] = 1

\* C7 as amended: a call sends exactly one request once it reaches send(),
\* whatever happens next (transport failure, non-success status, malformed
\* or empty envelope, decode failure, value), and never a second one; a call
\* that ends before send(), in the panic of the configuration load, has sent
\* none; and the result of a call is made of the answer to its own request.
C7_OneRequestPerCall ==
    \A c \in Calls :
        /\ sent[c] <= 1
        /\ sent[c] = IF ReachedSend(c) THEN 1 ELSE 0
        /\ Done(c) /\ ~ReachedSend(c) => calls[c].result.line \in {3, 153}
        /\ Answered(c) =>
               calls[c].result =
                   outer_result(inner_result(calls[c].status, calls[c].body, calls[c].bodyOk))

\* C7 witness: one call ended on a transport failure and another on a decode
\* failure, each with its one request sent.
C7_Witness ==
    \E c, d \in Calls :
        /\ Done(c) /\ calls[c].inner = [kind |-> "err", what |-> "transport"]
        /\ BadContent(d)
        /\ sent[c] = 1 /\ sent[d] = 1

\* C8: the initializers of CONFIG and CLIENT each run exactly once, on the
\* first use, and never again; once complete, CONFIG holds the environment's
\* values; every call reads the same model and api_key, and reads either
\* static only when its initialization is complete.
C8_InitOnce ==
    /\ config.inits = IF config.state = "uninit" THEN 0 ELSE 1
    /\ client.inits = IF client.state = "uninit" THEN 0 ELSE 1
    /\ (\E c \in Calls : calls[c].pc \notin {"idle", "build"}) => config.state # "uninit"
    /\ (\E c \in Calls : calls[c].pc \in {"send", "await"} \/ sent[c] > 0)
           => client.state = "complete"
    /\ config.state = "complete" =>
           config.value = [api_key |-> env.OPENAI_API_KEY, model |-> env.OPENAI_MODEL]
    /\ \A c \in Calls :
           /\ calls[c].model \in {"unread", env.OPENAI_MODEL}
           /\ calls[c].api_key \in {"unread", env.OPENAI_API_KEY}
           /\ calls[c].model # "unread" => config.state = "complete"
           /\ calls[c].pc \in {"send", "await"} => client.state = "complete"
           /\ sent[c] > 0 => client.state = "complete"

\* C8 witness: every call is in flight at once, each having read model and
\* api_key, with one initialization of each static.
C8_Witness ==
    /\ \A c \in Calls : calls[c].pc = "await" /\ calls[c].api_key = "sk-test"
    /\ config.inits = 1
    /\ client.inits = 1

\* C10: a request is sent only after Config::new succeeded on a complete
\* environment; when it panicked, CONFIG stays poisoned, no call has sent
\* or will send a request, and every call that touched CONFIG has panicked.
C10_NoRequestWithoutConfig ==
    /\ \A c \in Calls : sent[c] > 0 => config.state = "complete" /\ EnvComplete
    /\ ~EnvComplete => config.state \in {"uninit", "running", "poisoned"}
    /\ config.state = "poisoned" =>
           \A c \in Calls :
               /\ sent[c] = 0
               /\ calls[c].pc \in {"idle", "build", "done"}
               /\ Done(c) => calls[c].result.kind = "panic" /\ calls[c].inner = NoInner

\* C10 witness: the model is not set; the first call panicked in Config::new
\* and a later call panicked on the poisoned CONFIG, neither sending.
C10_Witness ==
    /\ env.OPENAI_MODEL = Absent /\ env.OPENAI_API_KEY # Absent /\ env.dotenv
    /\ \E c, d \in Calls :
           /\ calls[c].result = [kind |-> "panic", line |-> 153]
           /\ calls[d].result = PoisonPanic
           /\ sent[c] = 0 /\ sent[d] = 0
====
